---- MODULE Spec2Model ----
(***************************************************************************)
(* Tagme: the transactional record store (models.rs), the UserStatus       *)
(* authorization gate (models.rs) and the request handlers that use them   *)
(* (main.rs).  Every handler is one sled transaction; the model runs the   *)
(* transaction body over a staged copy of the store and commits it only    *)
(* when the body returns Ok.  The record codec's prefixed keys (models.rs), *)
(* the signed token and its middleware (token.rs) and requests whose       *)
(* transactions run concurrently have their own specifications.            *)
(***************************************************************************)
EXTENDS Integers, Sequences, FiniteSets, TLC

VARIABLES users, topics, top, tokens, last,
          disk, now, secret, wallet, exchange, inflight

\* The records of the store, the subjects holding a token and the request
\* being answered.
storeVars == <<users, topics, top, tokens, last>>

\* The store's flat byte-keyed space.
diskVars == <<disk>>

\* The clock, the process secret, the tokens handed out and the request the
\* token middleware is serving.
tokenVars == <<now, secret, wallet, exchange>>

\* The requests whose transactions run concurrently.
concVars == <<inflight>>

vars == <<storeVars, diskVars, tokenVars, concVars>>

----------------------------------------------------------------------------
(* Request universe *)

\* GitHub user ids that log in.
Users == {1, 2}

\* OptionalToken(None): the request carries no valid token.
NoSub == 0

\* Topic names posted in the path; EmptyName is the name with is_empty().
EmptyName == ""
Topics == {"rust", "go"}

\* Tags posted in the body.
Tags == {"fast", "safe"}

Descriptions == {"systems", "web"}

\* A name longer than every length limit (129 bytes).
LongName == "xxxxxxxxxxxxxxxxxxxxxxxxxxxxxxxxxxxxxxxxxxxxxxxxxxxxxxxxxxxxxxxxxxxxxxxxxxxxxxxxxxxxxxxxxxxxxxxxxxxxxxxxxxxxxxxxxxxxxxxxxxxxxxxxx"

\* str::len of the names of the request universe.
len(s) ==
    CASE s = EmptyName -> 0
      [] s = "go" -> 2
      [] s = LongName -> 129
      [] OTHER -> 4

\* topic.len() > 128, post.tag.len() > 64
MaxTopicLen == 128
MaxTagLen == 64

\* Largest tag count the model lets an add-tag request reach.
MaxCount == 2

\* Longest per-user topic list the model lets a creation reach.
MaxTopics == 2

\* Most helper calls one transaction body makes (topic_handler, creating).
MaxHelperCalls == 6

\* Where the store fails during a request: 0 nowhere, 1 .. MaxHelperCalls at
\* that helper call of the transaction body, CommitFault at the commit.
CommitFault == MaxHelperCalls + 1

----------------------------------------------------------------------------
(* Status codes (axum::http::StatusCode) *)

OK == "OK"
SEE_OTHER == "SEE_OTHER"
BAD_REQUEST == "BAD_REQUEST"
UNAUTHORIZED == "UNAUTHORIZED"
FORBIDDEN == "FORBIDDEN"
NOT_FOUND == "NOT_FOUND"
CONFLICT == "CONFLICT"
INTERNAL_SERVER_ERROR == "INTERNAL_SERVER_ERROR"

----------------------------------------------------------------------------
(* UserStatus: the status tag and the UserData it wraps *)

Normal == "Normal"
Admin == "Admin"
Banned == "Banned"
Statuses == {Normal, Admin, Banned}

\* impl Default for UserStatus
UserStatus_default ==
    [status |-> Normal, topics |-> <<>>, access_token |-> "", login |-> "",
     name |-> "", avatar_url |-> "", bio |-> ""]

\* Mutant: every status counts as Admin.
is_admin_anybody(s) == TRUE

is_admin(s) == s.status = Admin

\* Mutant: no status counts as Banned.
is_banned_nobody(s) == FALSE

is_banned(s) == s.status = Banned

\* Mutant: a Banned account passes as active.
as_active_never_forbids(s) == OK

as_active(s) == IF is_banned(s) THEN FORBIDDEN ELSE OK

\* Mutant: ownership is not checked.
as_authorized_anyone(s, uid, author) == OK

as_authorized(s, uid, author) ==
    IF uid = author \/ is_admin(s) THEN OK ELSE FORBIDDEN

\* Mutant: the gate lets every caller through.
as_verified_always_ok(s, uid, author) == OK

as_verified(s, uid, author) ==
    IF as_active(s) # OK THEN as_active(s) ELSE as_authorized(s, uid, author)

----------------------------------------------------------------------------
(* DbHelper: typed access to one tree of the store inside a transaction.   *)
(* A tree is a function from the keys present to their records; `fail` is  *)
(* the store (or the codec) failing on this call.                          *)

Ok(v) == [ok |-> TRUE, val |-> v, err |-> OK]
Err(code) == [ok |-> FALSE, val |-> <<>>, err |-> code]

\* A tree with no key, a HashMap with no entry.
EmptyMap == [k \in {} |-> 0]

\* Option<V> is a sequence of length 0 or 1.
get(tree, key, fail) ==
    IF fail THEN Err(INTERNAL_SERVER_ERROR)
    ELSE IF key \in DOMAIN tree THEN Ok(<<tree[key]>>) ELSE Ok(<<>>)

get_or_not_found(tree, key, fail) ==
    LET r == get(tree, key, fail) IN
    IF ~r.ok THEN r
    ELSE IF r.val = <<>> THEN Err(NOT_FOUND) ELSE Ok(r.val[1])

insert(tree, key, value) ==
    [k \in DOMAIN tree \cup {key} |-> IF k = key THEN value ELSE tree[k]]

remove(tree, key) ==
    [k \in DOMAIN tree \ {key} |-> tree[k]]

\* Mutant: the stored value is discarded for the default.
unwrap_or_default_discards(opt, default) == default

unwrap_or_default(opt, default) == IF opt = <<>> THEN default ELSE opt[1]

\* Mutant: nothing is removed.
retain_everything(list, x) == list

\* Vec::retain(|t| t != x)
retain(list, x) == SelectSeq(list, LAMBDA t : t # x)

\* Mutant: the new name goes to the front.
push_front(list, x) == <<x>> \o list

\* Vec::push
push(list, x) == Append(list, x)

\* The store as the transaction sees it.
Db == [users |-> users, topics |-> topics, top |-> top]

\* What a transaction body returns: Ok or Err with its status code, the
\* staged store and the number of writes (insert/remove) it issued.
RetOk(tx, code, writes) == [ok |-> TRUE, tx |-> tx, code |-> code, writes |-> writes]
RetErr(tx, code, writes) == [ok |-> FALSE, tx |-> tx, code |-> code, writes |-> writes]

\* with_transaction: the staged writes are committed iff the body returned
\* Ok; an abort surfaces the body's own error; any other transaction error
\* (the store failing at commit) becomes CONFLICT.
\* Mutant: the staged writes are kept when the body fails.
with_transaction_keeps_writes(db, out, commit_fail) ==
    [db |-> out.tx, code |-> out.code, writes |-> out.writes]

with_transaction(db, out, commit_fail) ==
    IF ~out.ok THEN [db |-> db, code |-> out.code, writes |-> out.writes]
    ELSE IF commit_fail THEN [db |-> db, code |-> CONFLICT, writes |-> out.writes]
    ELSE [db |-> out.tx, code |-> out.code, writes |-> out.writes]

\* A handler that returns before it opens a transaction.
Early(db, code) == [db |-> db, code |-> code, writes |-> 0]

\* OptionalToken::auth
auth(sub) == IF sub = NoSub THEN Err(UNAUTHORIZED) ELSE Ok(sub)

----------------------------------------------------------------------------
(* topic_handler: POST /topic/{topic} *)

\* The transaction body; helper call number `fault` fails (0: none).
topic_handler_tx(db, uid, topic, description, fault) ==
    LET r1 == get_or_not_found(db.users, uid, fault = 1) IN
    IF ~r1.ok THEN RetErr(db, r1.err, 0) ELSE
    LET user_status == r1.val
        r2 == get(db.topics, topic, fault = 2) IN
    IF ~r2.ok THEN RetErr(db, r2.err, 0) ELSE
    IF r2.val # <<>> THEN
        LET topic_data == r2.val[1] IN
        IF as_verified(user_status, uid, topic_data.author) # OK
        THEN RetErr(db, as_verified(user_status, uid, topic_data.author), 0) ELSE
        IF fault = 3 THEN RetErr(db, INTERNAL_SERVER_ERROR, 0) ELSE
        LET updated == [topic_data EXCEPT !.description = description]
            tx1 == [db EXCEPT !.topics = insert(db.topics, topic, updated)]
        IN RetOk(tx1, OK, 1)
    ELSE
        IF as_active(user_status) # OK THEN RetErr(db, as_active(user_status), 0) ELSE
        IF fault = 3 THEN RetErr(db, INTERNAL_SERVER_ERROR, 0) ELSE
        LET topic_data == [author |-> uid, description |-> description,
                           tags |-> EmptyMap, pending_tags |-> {}]
            tx1 == [db EXCEPT !.topics = insert(db.topics, topic, topic_data)]
            r4 == get(tx1.top, EmptyName, fault = 4)
        IN
        IF ~r4.ok THEN RetErr(tx1, r4.err, 1) ELSE
        IF fault = 5 THEN RetErr(tx1, INTERNAL_SERVER_ERROR, 1) ELSE
        LET list == push(unwrap_or_default(r4.val, <<>>), topic)
            tx2 == [tx1 EXCEPT !.top = insert(tx1.top, EmptyName, list)]
        IN
        IF fault = 6 THEN RetErr(tx2, INTERNAL_SERVER_ERROR, 2) ELSE
        LET user == [user_status EXCEPT !.topics = push(@, topic)]
            tx3 == [tx2 EXCEPT !.users = insert(tx2.users, uid, user)]
        IN RetOk(tx3, OK, 3)

topic_handler(db, sub, topic, description, fault) ==
    IF len(topic) = 0 \/ len(topic) > MaxTopicLen THEN Early(db, BAD_REQUEST) ELSE
    IF ~auth(sub).ok THEN Early(db, auth(sub).err) ELSE
    with_transaction(db, topic_handler_tx(db, sub, topic, description, fault),
                     fault = CommitFault)

----------------------------------------------------------------------------
(* del_topic: DELETE /topic/{topic} *)

del_topic_tx(db, uid, topic, fault) ==
    LET r1 == get_or_not_found(db.topics, topic, fault = 1) IN
    IF ~r1.ok THEN RetErr(db, r1.err, 0) ELSE
    LET topic_data == r1.val
        r2 == get_or_not_found(db.users, uid, fault = 2) IN
    IF ~r2.ok THEN RetErr(db, r2.err, 0) ELSE
    LET user_status == r2.val IN
    IF as_verified(user_status, uid, topic_data.author) # OK
    THEN RetErr(db, as_verified(user_status, uid, topic_data.author), 0) ELSE
    IF fault = 3 THEN RetErr(db, INTERNAL_SERVER_ERROR, 0) ELSE
    LET user == [user_status EXCEPT !.topics = retain(@, topic)]
        tx1 == [db EXCEPT !.users = insert(db.users, uid, user)]
        r4 == get(tx1.top, EmptyName, fault = 4)
    IN
    IF ~r4.ok THEN RetErr(tx1, r4.err, 1) ELSE
    IF fault = 5 THEN RetErr(tx1, INTERNAL_SERVER_ERROR, 1) ELSE
    LET list == retain(unwrap_or_default(r4.val, <<>>), topic)
        tx2 == [tx1 EXCEPT !.top = insert(tx1.top, EmptyName, list)]
    IN
    IF fault = 6 THEN RetErr(tx2, INTERNAL_SERVER_ERROR, 2) ELSE
    LET tx3 == [tx2 EXCEPT !.topics = remove(tx2.topics, topic)]
    IN RetOk(tx3, SEE_OTHER, 3)

del_topic(db, sub, topic, fault) ==
    IF ~auth(sub).ok THEN Early(db, auth(sub).err) ELSE
    with_transaction(db, del_topic_tx(db, sub, topic, fault),
                     fault = CommitFault)

----------------------------------------------------------------------------
(* add_tags_handler: POST /add/tag/{topic} *)

\* Mutant: every caller with a token counts as the owner.
add_tags_is_owner_any_token(db, sub, author, fault) == sub # NoSub

\* is_owner: a failed read of the caller's record counts as "not owner".
add_tags_is_owner(db, sub, author, fault) ==
    IF sub = NoSub THEN FALSE ELSE
    LET r == get_or_not_found(db.users, sub, fault = 2) IN
    IF ~r.ok THEN FALSE ELSE as_verified(r.val, sub, author) = OK

\* Mutant: a tag the owner confirms stays in pending_tags.
add_tags_apply_keeps_pending(topic_data, tag, is_owner) ==
    IF tag \in DOMAIN topic_data.tags THEN
        [topic_data EXCEPT !.tags[tag] = @ + 1]
    ELSE IF is_owner THEN
        [topic_data EXCEPT !.tags = insert(@, tag, 1)]
    ELSE
        [topic_data EXCEPT !.pending_tags = @ \cup {tag}]

\* Mutant: the owner branch is tried first, so an owner's endorsement resets
\* the count.
add_tags_apply_owner_first(topic_data, tag, is_owner) ==
    IF is_owner THEN
        [topic_data EXCEPT !.tags = insert(@, tag, 1),
                           !.pending_tags = @ \ {tag}]
    ELSE IF tag \in DOMAIN topic_data.tags THEN
        [topic_data EXCEPT !.tags[tag] = @ + 1]
    ELSE
        [topic_data EXCEPT !.pending_tags = @ \cup {tag}]

add_tags_apply(topic_data, tag, is_owner) ==
    IF tag \in DOMAIN topic_data.tags THEN
        [topic_data EXCEPT !.tags[tag] = @ + 1]
    ELSE IF is_owner THEN
        [topic_data EXCEPT !.tags = insert(@, tag, 1),
                           !.pending_tags = @ \ {tag}]
    ELSE
        [topic_data EXCEPT !.pending_tags = @ \cup {tag}]

add_tags_handler_tx(db, sub, topic, tag, fault) ==
    LET r1 == get_or_not_found(db.topics, topic, fault = 1) IN
    IF ~r1.ok THEN RetErr(db, r1.err, 0) ELSE
    LET is_owner == add_tags_is_owner(db, sub, r1.val.author, fault)
        topic_data == add_tags_apply(r1.val, tag, is_owner)
    IN
    IF fault = 3 THEN RetErr(db, INTERNAL_SERVER_ERROR, 0) ELSE
    RetOk([db EXCEPT !.topics = insert(db.topics, topic, topic_data)], OK, 1)

add_tags_handler(db, sub, topic, tag, fault) ==
    IF len(tag) = 0 \/ len(tag) > MaxTagLen THEN Early(db, BAD_REQUEST) ELSE
    with_transaction(db, add_tags_handler_tx(db, sub, topic, tag, fault),
                     fault = CommitFault)

----------------------------------------------------------------------------
(* del_tags_handler: POST /del/tag/{topic} *)

del_tags_apply(topic_data, tag) ==
    [topic_data EXCEPT !.tags = remove(@, tag), !.pending_tags = @ \ {tag}]

del_tags_handler_tx(db, uid, topic, tag, fault) ==
    LET r1 == get_or_not_found(db.topics, topic, fault = 1) IN
    IF ~r1.ok THEN RetErr(db, r1.err, 0) ELSE
    LET r2 == get_or_not_found(db.users, uid, fault = 2) IN
    IF ~r2.ok THEN RetErr(db, r2.err, 0) ELSE
    IF as_verified(r2.val, uid, r1.val.author) # OK
    THEN RetErr(db, as_verified(r2.val, uid, r1.val.author), 0) ELSE
    IF fault = 3 THEN RetErr(db, INTERNAL_SERVER_ERROR, 0) ELSE
    LET topic_data == del_tags_apply(r1.val, tag)
    IN RetOk([db EXCEPT !.topics = insert(db.topics, topic, topic_data)], OK, 1)

del_tags_handler(db, sub, topic, tag, fault) ==
    IF ~auth(sub).ok THEN Early(db, auth(sub).err) ELSE
    with_transaction(db, del_tags_handler_tx(db, sub, topic, tag, fault),
                     fault = CommitFault)

----------------------------------------------------------------------------
(* ban_user: DELETE /user/{uid};  admin_handler: GET /private/admin *)

\* Mutant: the banned record is built from the default UserData.
ban_user_tx_drops_data(db, admin_uid, uid, fault) ==
    LET r1 == get_or_not_found(db.users, admin_uid, fault = 1) IN
    IF ~r1.ok THEN RetErr(db, r1.err, 0) ELSE
    IF ~is_admin(r1.val) THEN RetErr(db, FORBIDDEN, 0) ELSE
    LET r2 == get_or_not_found(db.users, uid, fault = 2) IN
    IF ~r2.ok THEN RetErr(db, r2.err, 0) ELSE
    LET user_status == [UserStatus_default EXCEPT !.status = Banned]
    IN RetOk([db EXCEPT !.users = insert(db.users, uid, user_status)], OK, 1)

ban_user_tx(db, admin_uid, uid, fault) ==
    LET r1 == get_or_not_found(db.users, admin_uid, fault = 1) IN
    IF ~r1.ok THEN RetErr(db, r1.err, 0) ELSE
    IF ~is_admin(r1.val) THEN RetErr(db, FORBIDDEN, 0) ELSE
    LET r2 == get_or_not_found(db.users, uid, fault = 2) IN
    IF ~r2.ok THEN RetErr(db, r2.err, 0) ELSE
    IF fault = 3 THEN RetErr(db, INTERNAL_SERVER_ERROR, 0) ELSE
    LET user_status == [r2.val EXCEPT !.status = Banned]
    IN RetOk([db EXCEPT !.users = insert(db.users, uid, user_status)], OK, 1)

ban_user(db, sub, uid, fault) ==
    IF ~auth(sub).ok THEN Early(db, auth(sub).err) ELSE
    with_transaction(db, ban_user_tx(db, sub, uid, fault),
                     fault = CommitFault)

\* query.contains_key("op") promotes, otherwise ("deop") demotes.
admin_handler_tx(db, uid, op, fault) ==
    LET r1 == get_or_not_found(db.users, uid, fault = 1) IN
    IF ~r1.ok THEN RetErr(db, r1.err, 0) ELSE
    IF fault = 2 THEN RetErr(db, INTERNAL_SERVER_ERROR, 0) ELSE
    LET user_status == [r1.val EXCEPT !.status = IF op THEN Admin ELSE Normal]
    IN RetOk([db EXCEPT !.users = insert(db.users, uid, user_status)], OK, 1)

admin_handler(db, uid, op, fault) ==
    with_transaction(db, admin_handler_tx(db, uid, op, fault),
                     fault = CommitFault)

----------------------------------------------------------------------------
(* oauth_callback: GET /oauth/callback, after the profile was fetched *)

\* The profile GitHub returns for an id.
GithubProfile(github_id) ==
    [access_token |-> "gho", login |-> "kemi", name |-> "Kemi",
     avatar_url |-> "png", bio |-> "uwu"]

oauth_callback_tx(db, github_id, profile, fault) ==
    LET r1 == get(db.users, github_id, fault = 1) IN
    IF ~r1.ok THEN RetErr(db, r1.err, 0) ELSE
    IF fault = 2 THEN RetErr(db, INTERNAL_SERVER_ERROR, 0) ELSE
    LET user_status == [unwrap_or_default(r1.val, UserStatus_default) EXCEPT
                           !.access_token = profile.access_token,
                           !.login = profile.login,
                           !.name = profile.name,
                           !.avatar_url = profile.avatar_url,
                           !.bio = profile.bio]
    IN RetOk([db EXCEPT !.users = insert(db.users, github_id, user_status)], OK, 1)

oauth_callback(db, github_id, profile, fault) ==
    with_transaction(db, oauth_callback_tx(db, github_id, profile, fault),
                     fault = CommitFault)

----------------------------------------------------------------------------
(* TopicRes: the response body of get_topic and add_tags_handler;          *)
(* get_topic: GET /topic/{topic}                                           *)

\* Mutant: pending_tags is sent to every caller.
TopicRes_to_everyone(topic_data, is_owner) ==
    [description |-> topic_data.description,
     author |-> ToString(topic_data.author),
     tags |-> topic_data.tags,
     pending_tags |-> topic_data.pending_tags]

\* TopicRes { .., pending_tags: is_owner.then(..).unwrap_or_default() }
TopicRes(topic_data, is_owner) ==
    [description |-> topic_data.description,
     author |-> ToString(topic_data.author),
     tags |-> topic_data.tags,
     pending_tags |-> IF is_owner THEN topic_data.pending_tags ELSE {}]

\* is_owner of get_topic: the read of the caller's record is propagated
\* (transpose()?), a request without a token is not the owner.
get_topic_is_owner(db, sub, author, fault) ==
    IF sub = NoSub THEN Ok(FALSE) ELSE
    LET r == get_or_not_found(db.users, sub, fault = 2) IN
    IF ~r.ok THEN r ELSE Ok(as_verified(r.val, sub, author) = OK)

get_topic_tx(db, sub, topic, fault) ==
    LET r1 == get_or_not_found(db.topics, topic, fault = 1) IN
    IF ~r1.ok THEN RetErr(db, r1.err, 0) ELSE
    LET r2 == get_topic_is_owner(db, sub, r1.val.author, fault) IN
    IF ~r2.ok THEN RetErr(db, r2.err, 0) ELSE
    RetOk(db, OK, 0)

get_topic(db, sub, topic, fault) ==
    with_transaction(db, get_topic_tx(db, sub, topic, fault),
                     fault = CommitFault)

\* The body of get_topic's response: Some(TopicRes) when the request
\* returned Ok.
get_topic_response(db, sub, topic, fault) ==
    IF get_topic(db, sub, topic, fault).code # OK THEN <<>> ELSE
    LET topic_data == get_or_not_found(db.topics, topic, FALSE).val
        is_owner == get_topic_is_owner(db, sub, topic_data.author, fault).val
    IN <<TopicRes(topic_data, is_owner)>>

\* The body of add_tags_handler's response: Some(TopicRes) of the record it
\* wrote when the request returned Ok.
add_tags_handler_response(db, sub, topic, tag, fault) ==
    IF add_tags_handler(db, sub, topic, tag, fault).code # OK THEN <<>> ELSE
    LET stored == get_or_not_found(db.topics, topic, FALSE).val
        is_owner == add_tags_is_owner(db, sub, stored.author, fault)
        topic_data == add_tags_apply(stored, tag, is_owner)
    IN <<TopicRes(topic_data, is_owner)>>

----------------------------------------------------------------------------
(* Record codec: the physical key of a record in the store's one flat      *)
(* keyspace.  Byte strings are sequences of numbers 0 .. 255; a String is  *)
(* its bytes.                                                              *)

UserKind == "UserStatus"
TopicKind == "Topic"
TopKind == "Top"
Kinds == {UserKind, TopicKind, TopKind}

\* Mutant: every kind shares one prefix.
prefix_shared(kind) == <<35>>

\* DbType::prefix: "@", "#" and "!top" as bytes.
prefix(kind) ==
    CASE kind = UserKind -> <<64>>
      [] kind = TopicKind -> <<35>>
      [] kind = TopKind -> <<33, 116, 111, 112>>

\* The `count` least significant bytes of n, least significant first.
RECURSIVE le_bytes(_, _)
le_bytes(n, count) ==
    IF count = 0 THEN <<>> ELSE <<n % 256>> \o le_bytes(n \div 256, count - 1)

\* ToKey for u64: to_le_bytes, eight bytes.
to_key_u64(n) == le_bytes(n, 8)

\* ToKey for String and &'static str: as_bytes.
to_key_str(bytes) == bytes

\* The keys of each kind in the key universe: user ids (one whose bytes
\* spell "top"), topic names (the empty one, one that spells "top", one
\* whose bytes are those of user id 1) and the keys of Top.
KeyIds == {1, 7368564}
KeyNames == {<<>>, <<116, 111, 112>>, <<1, 0, 0, 0, 0, 0, 0, 0>>}
KeysOf(kind) ==
    CASE kind = UserKind -> {to_key_u64(n) : n \in KeyIds}
      [] kind = TopicKind -> {to_key_str(s) : s \in KeyNames}
      [] kind = TopKind -> {to_key_str(<<>>), to_key_str(<<1, 0, 0, 0, 0, 0, 0, 0>>)}

\* [V::prefix().as_bytes(), &key.to_key()].concat()
prefixed_key(kind, key) == prefix(kind) \o key

\* DbHelper::get / insert / remove on the flat keyspace.
disk_get(d, kind, key) ==
    IF prefixed_key(kind, key) \in DOMAIN d
    THEN <<d[prefixed_key(kind, key)]>> ELSE <<>>

disk_insert(d, kind, key, value) == insert(d, prefixed_key(kind, key), value)

disk_remove(d, kind, key) == remove(d, prefixed_key(kind, key))

----------------------------------------------------------------------------
(* Token: the signed bearer token (token.rs).  `secret` is the process's   *)
(* TOKEN_SECRET_KEY and `now` the clock read by unix_timestamp().          *)

\* exp = iat + 2_000_000
Lifetime == 2000000

\* Mutant: exp is left out of the digest.
signature_without_exp(secret_key, sub, iat, exp) == <<secret_key, sub, iat, 0>>

\* SHA-256 over the secret and the three fields at fixed width: a digest
\* that differs whenever one of its four inputs differs.
signature(secret_key, sub, iat, exp) == <<secret_key, sub, iat, exp>>

Token(sub, iat, exp, sign) == [sub |-> sub, iat |-> iat, exp |-> exp, sign |-> sign]

\* Mutant: a new token lives twice as long.
Token_new_twice_lifetime(sub) ==
    LET iat == now
        exp == iat + 2 * Lifetime
    IN Token(sub, iat, exp, signature(secret, sub, iat, exp))

\* Token::new
Token_new(sub) ==
    LET iat == now
        exp == iat + Lifetime
    IN Token(sub, iat, exp, signature(secret, sub, iat, exp))

\* Mutant: the window is now < exp.
is_valid_until_exp(token) ==
    /\ token.sign = signature(secret, token.sub, token.iat, token.exp)
    /\ now < token.exp

\* Token::is_valid
is_valid(token) ==
    /\ token.sign = signature(secret, token.sub, token.iat, token.exp)
    /\ (token.iat - now) + (token.exp - now) > 0

\* Mutant: the renewal slides exp too.
update_slides_exp(token) ==
    IF is_valid(token)
    THEN <<Token(token.sub, now, now + Lifetime,
                 signature(secret, token.sub, now, now + Lifetime))>>
    ELSE <<>>

\* Token::update: Some(renewed) for a valid token, None otherwise.
update(token) ==
    IF is_valid(token)
    THEN LET iat == now
         IN <<Token(token.sub, iat, token.exp,
                    signature(secret, token.sub, iat, token.exp))>>
    ELSE <<>>

\* The Authorization header value on the wire: whether it is visible ASCII
\* (to_str), its scheme prefix, whether the rest is base64, whether the
\* decoded bytes are a MessagePack Token, and the Token they hold.
HeaderValue(text, scheme, base64, packed, token) ==
    [text |-> text, scheme |-> scheme, base64 |-> base64, packed |-> packed,
     token |-> token]

Bearer == "Bearer "

\* TryFrom<&Token> for HeaderValue: "Bearer " + base64(rmp_serde(token))
HeaderValue_try_from(token) == HeaderValue(TRUE, Bearer, TRUE, TRUE, token)

\* TryFrom<&str> for Token: base64 decode, then rmp_serde::from_slice.
Token_try_from_str(s) ==
    IF ~s.base64 THEN <<>>
    ELSE IF ~s.packed THEN <<>>
    ELSE <<s.token>>

\* Mutant: the scheme prefix is not required.
Token_try_from_any_scheme(headers) ==
    IF headers = <<>> THEN <<>>
    ELSE IF ~headers[1].text THEN <<>>
    ELSE Token_try_from_str(headers[1])

\* TryFrom<&HeaderMap> for Token: the header, to_str, strip_prefix("Bearer ").
Token_try_from(headers) ==
    IF headers = <<>> THEN <<>>
    ELSE IF ~headers[1].text THEN <<>>
    ELSE IF headers[1].scheme # Bearer THEN <<>>
    ELSE Token_try_from_str(headers[1])

\* OptionalToken::get_sub
get_sub(optional_token) ==
    IF optional_token = <<>> THEN NoSub ELSE optional_token[1].sub

\* Mutant: the renewed token replaces the handler's header.
or_insert_overwrites(entry, header) == <<header>>

\* Entry::or_insert on the response's Authorization header.
or_insert(entry, header) == IF entry = <<>> THEN <<header>> ELSE entry

\* token_middleware: the OptionalToken put in the request's extensions and,
\* after the handler answered with handler_header as its Authorization
\* header, the response's Authorization header.
token_middleware(headers, handler_header) ==
    LET parsed == Token_try_from(headers)
        token == IF parsed = <<>> THEN <<>> ELSE update(parsed[1])
    IN [token |-> token,
        sub |-> get_sub(token),
        auth |-> auth(get_sub(token)),
        response_header |->
            IF token # <<>>
            THEN or_insert(handler_header, HeaderValue_try_from(token[1]))
            ELSE handler_header]

----------------------------------------------------------------------------
(* The state machine: one action per request handler *)

\* The request being answered and its outcome; Idle between requests.
Request(op, sub, topic, tag, description, target, fault, r) ==
    [op |-> op, sub |-> sub, topic |-> topic, tag |-> tag,
     description |-> description, target |-> target, fault |-> fault,
     code |-> r.code, writes |-> r.writes]

Commit(r) ==
    /\ users' = r.db.users
    /\ topics' = r.db.topics
    /\ top' = r.db.top
    /\ UNCHANGED <<diskVars, tokenVars, concVars>>

\* The callers a request can come from: the holders of a token, or nobody.
Callers == tokens \cup {NoSub}

Idle ==
    [op |-> "idle", sub |-> NoSub, topic |-> EmptyName, tag |-> EmptyName,
     description |-> EmptyName, target |-> NoSub, fault |-> 0,
     code |-> OK, writes |-> 0]

\* Most requests whose transactions run at the same time.
MaxRequests == 3

Slots == 1 .. MaxRequests

\* The token middleware serves no request.
NoExchange ==
    [headers |-> <<>>, handler_header |-> <<>>, token |-> <<>>, sub |-> NoSub,
     auth |-> Ok(NoSub), response_header |-> <<>>, served |-> FALSE]

\* A slot that holds no request.
NoRequest ==
    [op |-> "idle", sub |-> NoSub, topic |-> EmptyName, tag |-> EmptyName,
     pc |-> "idle", base |-> EmptyMap, out |-> EmptyMap, runs |-> 0,
     code_exchanges |-> 0, profile_calls |-> 0, tokens_new |-> 0,
     code |-> OK, writes |-> 0]

\* A store that was just opened, a process that just started.
InitStore ==
    /\ users = EmptyMap
    /\ topics = EmptyMap
    /\ top = EmptyMap
    /\ tokens = {}
    /\ last = Idle
    /\ disk = EmptyMap

InitProcess ==
    /\ now = 0
    /\ secret = 1
    /\ wallet = <<>>
    /\ exchange = NoExchange
    /\ inflight = [i \in Slots |-> NoRequest]

Init == InitStore /\ InitProcess

\* The response leaves; the next request can be served.
Respond ==
    /\ last # Idle
    /\ last' = Idle
    /\ UNCHANGED <<users, topics, top, tokens>>
    /\ UNCHANGED <<diskVars, tokenVars, concVars>>

\* A creation the model admits: the creator's topic list is below MaxTopics.
CreationInBounds(sub, topic) ==
    (sub \in DOMAIN users /\ topic \notin DOMAIN topics)
        => Len(users[sub].topics) < MaxTopics

\* An endorsement the model admits: the tag's count is below MaxCount.
CountInBounds(topic, tag) ==
    (topic \in DOMAIN topics /\ tag \in DOMAIN topics[topic].tags)
        => topics[topic].tags[tag] < MaxCount

\* The inputs a specification draws its requests from: the topic names of
\* topic requests, the topic names and the tags of tag requests, the
\* descriptions, and the places where the store fails.
Universe(T, TT, G, D, F) ==
    [topics |-> T, tag_topics |-> TT, tags |-> G, descriptions |-> D, faults |-> F]

OAuthCallback(u) ==
    \E github_id \in Users, fault \in u.faults :
        LET r == oauth_callback(Db, github_id, GithubProfile(github_id),
                                fault) IN
        /\ last = Idle
        /\ Commit(r)
        /\ tokens' = IF r.code = OK THEN tokens \cup {github_id} ELSE tokens
        /\ last' = Request("oauth_callback", NoSub, EmptyName, EmptyName, EmptyName,
                           github_id, fault, r)

TopicHandler(u) ==
    \E sub \in Callers, topic \in u.topics, description \in u.descriptions,
       fault \in u.faults :
        LET r == topic_handler(Db, sub, topic, description, fault) IN
        /\ last = Idle
        /\ CreationInBounds(sub, topic)
        /\ Commit(r)
        /\ last' = Request("topic_handler", sub, topic, EmptyName, description,
                           NoSub, fault, r)
        /\ UNCHANGED tokens

DelTopic(u) ==
    \E sub \in Callers, topic \in u.topics,
       fault \in u.faults :
        LET r == del_topic(Db, sub, topic, fault) IN
        /\ last = Idle
        /\ Commit(r)
        /\ last' = Request("del_topic", sub, topic, EmptyName, EmptyName,
                           NoSub, fault, r)
        /\ UNCHANGED tokens

AddTags(u) ==
    \E sub \in Callers, topic \in u.tag_topics, tag \in u.tags,
       fault \in u.faults :
        LET r == add_tags_handler(Db, sub, topic, tag, fault) IN
        /\ last = Idle
        /\ CountInBounds(topic, tag)
        /\ Commit(r)
        /\ last' = Request("add_tags_handler", sub, topic, tag, EmptyName,
                           NoSub, fault, r)
        /\ UNCHANGED tokens

DelTags(u) ==
    \E sub \in Callers, topic \in u.tag_topics, tag \in u.tags,
       fault \in u.faults :
        LET r == del_tags_handler(Db, sub, topic, tag, fault) IN
        /\ last = Idle
        /\ Commit(r)
        /\ last' = Request("del_tags_handler", sub, topic, tag, EmptyName,
                           NoSub, fault, r)
        /\ UNCHANGED tokens

BanUser(u) ==
    \E sub \in Callers, uid \in Users,
       fault \in u.faults :
        LET r == ban_user(Db, sub, uid, fault) IN
        /\ last = Idle
        /\ Commit(r)
        /\ last' = Request("ban_user", sub, EmptyName, EmptyName, EmptyName,
                           uid, fault, r)
        /\ UNCHANGED tokens

AdminHandler(u) ==
    \E uid \in Users, op \in BOOLEAN,
       fault \in u.faults :
        LET r == admin_handler(Db, uid, op, fault) IN
        /\ last = Idle
        /\ Commit(r)
        /\ last' = Request(IF op THEN "admin_handler_op" ELSE "admin_handler_deop",
                           NoSub, EmptyName, EmptyName, EmptyName,
                           uid, fault, r)
        /\ UNCHANGED tokens

GetTopic(u) ==
    \E sub \in Callers, topic \in u.tag_topics,
       fault \in u.faults :
        LET r == get_topic(Db, sub, topic, fault) IN
        /\ last = Idle
        /\ Commit(r)
        /\ last' = Request("get_topic", sub, topic, EmptyName, EmptyName,
                           NoSub, fault, r)
        /\ UNCHANGED tokens

\* Topic lifecycle: two topic names (and the invalid ones), one tag on one
\* of the topics, no store failure.
LifecycleUniverse ==
    Universe(Topics \cup {EmptyName, LongName}, {"rust"}, {"fast"}, Descriptions, {0})

Next ==
    \/ Respond
    \/ OAuthCallback(LifecycleUniverse)
    \/ TopicHandler(LifecycleUniverse)
    \/ DelTopic(LifecycleUniverse)
    \/ AddTags(LifecycleUniverse)
    \/ DelTags(LifecycleUniverse)
    \/ BanUser(LifecycleUniverse)
    \/ AdminHandler(LifecycleUniverse)

Spec == Init /\ [][Next]_vars

\* Tags of one topic: every handler, no store failure.
TagsUniverse ==
    Universe({"rust"}, {"rust", "go"}, Tags \cup {EmptyName, LongName}, Descriptions, {0})

NextTags ==
    \/ Respond
    \/ OAuthCallback(TagsUniverse)
    \/ TopicHandler(TagsUniverse)
    \/ DelTopic(TagsUniverse)
    \/ AddTags(TagsUniverse)
    \/ DelTags(TagsUniverse)
    \/ BanUser(TagsUniverse)
    \/ AdminHandler(TagsUniverse)

SpecTags == Init /\ [][NextTags]_vars

\* One topic, one tag, and a store that may fail at any helper call or at
\* commit.
FaultUniverse ==
    Universe({"rust"}, {"rust"}, {"fast"}, {"systems"}, 0 .. CommitFault)

NextFault ==
    \/ Respond
    \/ OAuthCallback(FaultUniverse)
    \/ TopicHandler(FaultUniverse)
    \/ DelTopic(FaultUniverse)
    \/ AddTags(FaultUniverse)
    \/ DelTags(FaultUniverse)
    \/ BanUser(FaultUniverse)
    \/ AdminHandler(FaultUniverse)

SpecFault == Init /\ [][NextFault]_vars

\* Reading a topic: one topic, its tags, every handler with get_topic, no
\* store failure.
ReadUniverse ==
    Universe({"rust"}, {"rust", "go"}, Tags, {"systems"}, {0})

NextRead ==
    \/ Respond
    \/ OAuthCallback(ReadUniverse)
    \/ TopicHandler(ReadUniverse)
    \/ DelTopic(ReadUniverse)
    \/ AddTags(ReadUniverse)
    \/ DelTags(ReadUniverse)
    \/ BanUser(ReadUniverse)
    \/ AdminHandler(ReadUniverse)
    \/ GetTopic(ReadUniverse)

SpecRead == Init /\ [][NextRead]_vars

----------------------------------------------------------------------------
(* The flat keyspace: records of every kind written to and removed from    *)
(* one byte-keyed store through their prefixed keys.                       *)

\* The records of a kind; each carries its kind, as its encoding does.
KeyValues(kind) == {[kind |-> kind, v |-> n] : n \in {1, 2}}

KeyInsert ==
    \E kind \in Kinds :
        \E key \in KeysOf(kind), value \in KeyValues(kind) :
            /\ disk' = disk_insert(disk, kind, key, value)
            /\ UNCHANGED <<storeVars, tokenVars, concVars>>

KeyRemove ==
    \E kind \in Kinds :
        \E key \in KeysOf(kind) :
            /\ disk_get(disk, kind, key) # <<>>
            /\ disk' = disk_remove(disk, kind, key)
            /\ UNCHANGED <<storeVars, tokenVars, concVars>>

NextKeys == KeyInsert \/ KeyRemove

SpecKeys == Init /\ [][NextKeys]_vars

----------------------------------------------------------------------------
(* The token subsystem at work: a client that holds the last token it was  *)
(* given sends requests through token_middleware while the clock advances  *)
(* and the process restarts with a new secret.                             *)

\* Most clock steps and most restarts of a run.
MaxTicks == 4
MaxRestarts == 1

\* The clock advances a quarter of the token lifetime at a time.
Quarter == Lifetime \div 4

\* The token field of a header value that holds no Token.
NoToken == Token(NoSub, 0, 0, signature(0, NoSub, 0, 0))

\* What a client makes of the token t it holds: its header as issued, the
\* header damaged at each layer of the wire encoding, and the token with a
\* field altered or signed again with a secret of the client's own.
HeadersOf(t) ==
    LET good == HeaderValue_try_from(t) IN
    {good,
     [good EXCEPT !.text = FALSE],
     [good EXCEPT !.scheme = "Basic "],
     [good EXCEPT !.base64 = FALSE, !.token = NoToken],
     [good EXCEPT !.packed = FALSE, !.token = NoToken],
     [good EXCEPT !.token.sub = CHOOSE u \in Users : u # t.sub],
     [good EXCEPT !.token.exp = t.exp + Lifetime],
     [good EXCEPT !.token.iat = t.iat + Lifetime],
     [good EXCEPT !.token.sign = signature(0, t.sub, t.iat, t.exp)]}

\* The Authorization header of a request: none, or one made from the token
\* the client holds.
RequestHeaders ==
    {<<>>} \cup (IF wallet = <<>> THEN {} ELSE {<<h>> : h \in HeadersOf(wallet[1].token)})

\* The Authorization header of the handler's response: none, or its own.
HandlerHeaders == {<<>>, <<HeaderValue(TRUE, "Basic ", FALSE, FALSE, NoToken)>>}

\* The token a client holds, with the secret it was signed under.
Held(token) == <<[token |-> token, key |-> secret]>>

Tick ==
    /\ exchange = NoExchange
    /\ now < MaxTicks * Quarter
    /\ now' = now + Quarter
    /\ UNCHANGED <<secret, wallet, exchange, storeVars, diskVars, concVars>>

\* The process restarts: TOKEN_SECRET_KEY is drawn again.
Restart ==
    /\ exchange = NoExchange
    /\ secret <= MaxRestarts
    /\ secret' = secret + 1
    /\ UNCHANGED <<now, wallet, exchange, storeVars, diskVars, concVars>>

\* Token::new at login; the client keeps the token.
TokenNew ==
    \E sub \in Users :
        /\ exchange = NoExchange
        /\ wallet' = Held(Token_new(sub))
        /\ UNCHANGED <<now, secret, exchange, storeVars, diskVars, concVars>>

\* One request through token_middleware; the client keeps a token the
\* response carries.
Middleware ==
    \E headers \in RequestHeaders, handler_header \in HandlerHeaders :
        LET r == token_middleware(headers, handler_header)
            renewed == IF r.response_header = <<>> THEN <<>>
                       ELSE Token_try_from(r.response_header)
        IN /\ exchange = NoExchange
           /\ exchange' = [headers |-> headers, handler_header |-> handler_header,
                           token |-> r.token, sub |-> r.sub, auth |-> r.auth,
                           response_header |-> r.response_header, served |-> TRUE]
           /\ wallet' = IF renewed = <<>> THEN wallet ELSE Held(renewed[1])
           /\ UNCHANGED <<now, secret, storeVars, diskVars, concVars>>

\* The response was delivered.
Served ==
    /\ exchange # NoExchange
    /\ exchange' = NoExchange
    /\ UNCHANGED <<now, secret, wallet, storeVars, diskVars, concVars>>

NextToken == Tick \/ Restart \/ TokenNew \/ Middleware \/ Served

SpecToken == Init /\ [][NextToken]_vars

----------------------------------------------------------------------------
(* Concurrent requests.  Each request runs its handler up to               *)
(* with_transaction, runs the transaction body on the store as it is then, *)
(* and commits; the store serializes transactions: a transaction whose     *)
(* store changed under it since its body ran is run again from the top of  *)
(* its body.                                                               *)

\* The store after user 1 and user 2 logged in, user 1 created "rust" and
\* gave it the tag "fast".
EmptyDb == [users |-> EmptyMap, topics |-> EmptyMap, top |-> EmptyMap]
SeededDb ==
    LET db1 == oauth_callback(EmptyDb, 1, GithubProfile(1), 0).db
        db2 == oauth_callback(db1, 2, GithubProfile(2), 0).db
        db3 == topic_handler(db2, 1, "rust", "systems", 0).db
    IN add_tags_handler(db3, 1, "rust", "fast", 0).db

InitConc ==
    /\ users = SeededDb.users
    /\ topics = SeededDb.topics
    /\ top = SeededDb.top
    /\ tokens = {1, 2}
    /\ last = Idle
    /\ disk = EmptyMap
    /\ InitProcess

\* The requests that run concurrently: add-tag requests of user 2 for the
\* tag "fast" of "rust", creations of "go" by either user, and a login of
\* user 2.
ConcRequests ==
    {[NoRequest EXCEPT !.op = "add_tags_handler", !.sub = 2, !.topic = "rust",
                       !.tag = "fast"]}
    \cup {[NoRequest EXCEPT !.op = "topic_handler", !.sub = s, !.topic = "go"] :
            s \in {1, 2}}
    \cup {[NoRequest EXCEPT !.op = "oauth_callback", !.sub = 2]}

\* The transaction body of a request on the store `db`.
ConcBody(req, db) ==
    CASE req.op = "add_tags_handler" ->
            add_tags_handler_tx(db, req.sub, req.topic, req.tag, 0)
      [] req.op = "topic_handler" ->
            topic_handler_tx(db, req.sub, req.topic, "systems", 0)
      [] OTHER -> oauth_callback_tx(db, req.sub, GithubProfile(req.sub), 0)

\* Mutant: a retry reads what the first run read.
helper_view_first_run(i) ==
    IF inflight[i].runs > 0 THEN inflight[i].base ELSE Db

\* DbHelper::new(tx): the store as this run of the body reads it.
helper_view(i) == Db

\* Mutant: a retry starts the handler over.
retry_pc_handler == "arrived"

\* Where a retried transaction starts again: at the closure given to
\* with_transaction.
retry_pc == "ready"

\* The store changed since the body of the transaction ran.
Conflict(base, db) == base # db

\* A request arrives; slots fill in order.  A handler other than
\* oauth_callback only reads the request and its token before it calls
\* with_transaction.
Arrive(i) ==
    \E req \in ConcRequests :
        /\ inflight[i].pc = "idle"
        /\ \A j \in Slots : j < i => inflight[j].pc # "idle"
        /\ inflight' = [inflight EXCEPT ![i] =
              [req EXCEPT !.pc = IF req.op = "oauth_callback"
                                 THEN "arrived" ELSE "ready"]]
        /\ UNCHANGED <<storeVars, diskVars, tokenVars>>

\* The handler up to with_transaction: oauth_callback exchanges the code,
\* fetches the profile and calls Token::new.
BeforeTransaction(i) ==
    /\ inflight[i].pc = "arrived"
    /\ inflight' = [inflight EXCEPT ![i] =
          IF inflight[i].op = "oauth_callback"
          THEN [@ EXCEPT !.pc = "ready", !.code_exchanges = @ + 1,
                         !.profile_calls = @ + 1, !.tokens_new = @ + 1]
          ELSE [@ EXCEPT !.pc = "ready"]]
    /\ UNCHANGED <<storeVars, diskVars, tokenVars>>

\* The transaction body runs.
RunBody(i) ==
    /\ inflight[i].pc = "ready"
    /\ inflight' = [inflight EXCEPT ![i] =
          [@ EXCEPT !.pc = "staged", !.base = Db, !.runs = @ + 1,
                    !.out = ConcBody(inflight[i], helper_view(i))]]
    /\ UNCHANGED <<storeVars, diskVars, tokenVars>>

\* The store lets the transaction through and with_transaction returns.
Finish(i) ==
    LET r == with_transaction(Db, inflight[i].out, FALSE) IN
    /\ inflight[i].pc = "staged"
    /\ ~Conflict(inflight[i].base, Db)
    /\ users' = r.db.users
    /\ topics' = r.db.topics
    /\ top' = r.db.top
    /\ tokens' = IF inflight[i].op = "oauth_callback" /\ r.code = OK
                 THEN tokens \cup {inflight[i].sub} ELSE tokens
    /\ inflight' = [inflight EXCEPT ![i] =
          [@ EXCEPT !.pc = "done", !.code = r.code, !.writes = r.writes,
                    !.base = EmptyMap, !.out = EmptyMap]]
    /\ UNCHANGED <<last, diskVars, tokenVars>>

\* The store refuses the transaction; it starts again.
Retry(i) ==
    /\ inflight[i].pc = "staged"
    /\ Conflict(inflight[i].base, Db)
    /\ inflight' = [inflight EXCEPT ![i] = [@ EXCEPT !.pc = retry_pc]]
    /\ UNCHANGED <<storeVars, diskVars, tokenVars>>

NextConc ==
    \E i \in Slots :
        \/ Arrive(i)
        \/ BeforeTransaction(i)
        \/ RunBody(i)
        \/ Finish(i)
        \/ Retry(i)

SpecConc == InitConc /\ [][NextConc]_vars

----------------------------------------------------------------------------
(* Properties *)

\* The members of a list.
Elems(list) == {list[i] : i \in 1 .. Len(list)}

\* The Top list as a reader sees it (an absent record reads as the default).
TopList(tree) == IF EmptyName \in DOMAIN tree THEN tree[EmptyName] ELSE <<>>

\* The gate as the specification states it: not Banned, and the caller is the
\* owner or an Admin.
PassesGate(status, caller, owner) ==
    status # Banned /\ (caller = owner \/ status = Admin)

\* Caller `sub` holds a stored record that passes the gate for `owner`.
CallerPasses(sub, owner) ==
    sub \in DOMAIN users /\ PassesGate(users[sub].status, sub, owner)

\* Ids used as caller and owner arguments: the users, and ids of nobody.
Ids == Users \cup {NoSub, 3}

\* C1: for every caller id, owner id and stored user status, as_verified
\* returns Ok iff the status is not Banned and (caller = owner or the status
\* is Admin), and Forbidden otherwise.
C1_VerifiedGate ==
    \A u \in DOMAIN users, uid \in Ids, author \in Ids :
        as_verified(users[u], uid, author) =
            IF PassesGate(users[u].status, uid, author) THEN OK ELSE FORBIDDEN

\* C1 witness: a Banned author was refused the deletion of their own topic,
\* while an Admin and a Normal user are stored too.
C1_Witness ==
    /\ last.op = "del_topic"
    /\ last.code = FORBIDDEN
    /\ last.sub \in DOMAIN users
    /\ users[last.sub].status = Banned
    /\ last.topic \in DOMAIN topics
    /\ topics[last.topic].author = last.sub
    /\ \E u \in DOMAIN users : users[u].status = Admin

\* An existing Topic record is changed or removed by the step.
TopicChanged(t) ==
    t \in DOMAIN topics /\ (t \notin DOMAIN topics' \/ topics'[t] # topics[t])

\* The step is an add-tag request that endorsed an existing tag of topic t or
\* put the tag in pending_tags, and did nothing else to the record.
EndorsedOrPending(t) ==
    /\ last'.op = "add_tags_handler"
    /\ last'.topic = t
    /\ t \in DOMAIN topics'
    /\ \/ /\ last'.tag \in DOMAIN topics[t].tags
          /\ topics'[t] = [topics[t] EXCEPT !.tags[last'.tag] = @ + 1]
       \/ /\ last'.tag \notin DOMAIN topics[t].tags
          /\ topics'[t] = [topics[t] EXCEPT !.pending_tags = @ \cup {last'.tag}]

\* C2 as stated: every change of an existing Topic record (description
\* update, deletion, tag add, tag remove) is made by an authenticated caller
\* whose stored status passes verified(caller, topic.author).
C2_EveryMutationGated ==
    [][\A t \in DOMAIN topics :
          TopicChanged(t) =>
              (last'.sub # NoSub /\ CallerPasses(last'.sub, topics[t].author))]_vars

\* C2 amended: a change of an existing Topic record by a description update,
\* a deletion or a tag removal is made by an authenticated caller who passes
\* verified(caller, topic.author); the only change any other caller makes is
\* an add-tag request that increments an existing tag's count or adds the tag
\* to pending_tags.
C2_MutationGatedExceptAddTag ==
    [][\A t \in DOMAIN topics :
          TopicChanged(t) =>
              \/ last'.sub # NoSub /\ CallerPasses(last'.sub, topics[t].author)
              \/ EndorsedOrPending(t)]_vars

\* C2 witness: an Admin who is not the author removed a tag, and the removal
\* was committed.
C2_Witness ==
    /\ last.op = "del_tags_handler"
    /\ last.code = OK
    /\ last.sub \in DOMAIN users
    /\ users[last.sub].status = Admin
    /\ last.topic \in DOMAIN topics
    /\ topics[last.topic].author # last.sub
    /\ last.tag \notin DOMAIN topics[last.topic].tags
    /\ topics[last.topic].tags # EmptyMap

\* C3 as stated: after a successful del_topic of topic T by a permitted
\* caller (the author, or an Admin who is not the author), the Topic record
\* of T is absent, T is not in the Top list, and T is not in the topic list
\* of T's author.
C3_DeleteRemovesEverywhere ==
    [][(last'.op = "del_topic" /\ last'.code = SEE_OTHER) =>
          LET t == last'.topic
              author == topics[t].author
          IN /\ t \notin DOMAIN topics'
             /\ t \notin Elems(TopList(top'))
             /\ t \notin Elems(users'[author].topics)]_vars

\* The request opened a transaction (it passed the checks made before
\* with_transaction).
OpenedTransaction(req) ==
    CASE req.op = "topic_handler" ->
            ~(len(req.topic) = 0 \/ len(req.topic) > MaxTopicLen) /\ req.sub # NoSub
      [] req.op = "add_tags_handler" ->
            ~(len(req.tag) = 0 \/ len(req.tag) > MaxTagLen)
      [] req.op \in {"del_topic", "del_tags_handler", "ban_user"} -> req.sub # NoSub
      [] req.op = "idle" -> FALSE
      [] OTHER -> TRUE

\* What the transaction body of the request returns on the current store.
Body(req) ==
    CASE req.op = "topic_handler" ->
            topic_handler_tx(Db, req.sub, req.topic, req.description, req.fault)
      [] req.op = "del_topic" -> del_topic_tx(Db, req.sub, req.topic, req.fault)
      [] req.op = "add_tags_handler" ->
            add_tags_handler_tx(Db, req.sub, req.topic, req.tag, req.fault)
      [] req.op = "del_tags_handler" ->
            del_tags_handler_tx(Db, req.sub, req.topic, req.tag, req.fault)
      [] req.op = "ban_user" -> ban_user_tx(Db, req.sub, req.target, req.fault)
      [] req.op = "admin_handler_op" -> admin_handler_tx(Db, req.target, TRUE, req.fault)
      [] req.op = "admin_handler_deop" -> admin_handler_tx(Db, req.target, FALSE, req.fault)
      [] OTHER ->
            oauth_callback_tx(Db, req.target, GithubProfile(req.target), req.fault)

StoreUnchanged == users' = users /\ topics' = topics /\ top' = top

\* C4 as stated: with_transaction is all-or-nothing.  When the transaction
\* body returns an error (NotFound, Forbidden, a storage or serialization
\* failure), none of its writes is visible afterwards and the request
\* returns the body's own error; a failed del_topic leaves the Topic record,
\* the Top list and the user's topic list unchanged, and a successful one
\* changes all three: the record is gone, the Top list lost the entry and a
\* user's topic list lost the entry.
C4_DeleteChangesAllThree ==
    [][/\ OpenedTransaction(last') /\ ~Body(last').ok =>
              StoreUnchanged /\ last'.code = Body(last').code
       /\ (last' # Idle /\ last'.code \notin {OK, SEE_OTHER}) => StoreUnchanged
       /\ (last'.op = "del_topic" /\ last'.code = SEE_OTHER) =>
              /\ last'.topic \notin DOMAIN topics'
              /\ TopList(top') # TopList(top)
              /\ \E u \in DOMAIN users : users'[u].topics # users[u].topics]_vars

\* C4, the part the code keeps.  A body that returns an error leaves the
\* store as it was, whatever it had written, and its error is the one
\* returned; no request that returns an error changes the store; a
\* successful del_topic commits its three writes in one step, after which
\* the record is absent and the name is neither in the Top list nor in the
\* caller's topic list.
C4_AllOrNothing ==
    [][/\ OpenedTransaction(last') /\ ~Body(last').ok =>
              StoreUnchanged /\ last'.code = Body(last').code
       /\ (last' # Idle /\ last'.code \notin {OK, SEE_OTHER}) => StoreUnchanged
       /\ (last'.op = "del_topic" /\ last'.code = SEE_OTHER) =>
              /\ last'.writes = 3
              /\ last'.topic \in DOMAIN topics
              /\ last'.topic \notin DOMAIN topics'
              /\ last'.topic \notin Elems(TopList(top'))
              /\ last'.topic \notin Elems(users'[last'.sub].topics)]_vars

\* C4 witness: a del_topic of the author failed in the store after it had
\* written the author's topic list and the Top list; the record, the Top
\* entry and the author's entry are all still there.
C4_Witness ==
    /\ last.op = "del_topic"
    /\ last.code = INTERNAL_SERVER_ERROR
    /\ last.writes = 2
    /\ last.topic \in DOMAIN topics
    /\ topics[last.topic].author = last.sub
    /\ last.topic \in Elems(TopList(top))
    /\ last.topic \in Elems(users[last.sub].topics)

\* C5: in every reachable state no tag of a Topic is both a key of tags and a
\* member of pending_tags.
C5_TagsDisjoint ==
    \A t \in DOMAIN topics :
        DOMAIN topics[t].tags \cap topics[t].pending_tags = {}

\* C5 witness: the author has just confirmed a tag while another tag of the
\* topic is pending.
C5_Witness ==
    /\ last.op = "add_tags_handler"
    /\ last.code = OK
    /\ last.topic \in DOMAIN topics
    /\ topics[last.topic].author = last.sub
    /\ last.tag \in DOMAIN topics[last.topic].tags
    /\ topics[last.topic].tags[last.tag] = 1
    /\ topics[last.topic].pending_tags # {}

\* The step is an add-tag request with a valid tag on an existing topic.
AddTagOn(t, g) ==
    /\ last'.op = "add_tags_handler"
    /\ last'.topic = t
    /\ last'.tag = g
    /\ ~(len(g) = 0 \/ len(g) > MaxTagLen)
    /\ t \in DOMAIN topics

\* C6: an add-tag request for a tag that is already a key of tags increments
\* that tag's count by exactly 1, whoever the caller is, and leaves
\* pending_tags, every other tag's count, the description and the author
\* unchanged.
C6_EndorseIncrements ==
    [][\A t \in DOMAIN topics : \A g \in DOMAIN topics[t].tags :
          AddTagOn(t, g) =>
              /\ last'.code = OK
              /\ t \in DOMAIN topics'
              /\ DOMAIN topics'[t].tags = DOMAIN topics[t].tags
              /\ topics'[t].tags[g] = topics[t].tags[g] + 1
              /\ \A h \in DOMAIN topics[t].tags \ {g} :
                    topics'[t].tags[h] = topics[t].tags[h]
              /\ topics'[t].pending_tags = topics[t].pending_tags
              /\ topics'[t].description = topics[t].description
              /\ topics'[t].author = topics[t].author]_vars

\* C6 witness: a caller without a token endorsed a tag, whose count is now 2,
\* while the topic has another confirmed tag.
C6_Witness ==
    /\ last.op = "add_tags_handler"
    /\ last.code = OK
    /\ last.sub = NoSub
    /\ last.topic \in DOMAIN topics
    /\ last.tag \in DOMAIN topics[last.topic].tags
    /\ topics[last.topic].tags[last.tag] = 2
    /\ DOMAIN topics[last.topic].tags # {last.tag}

\* C7: an add-tag request for a tag that is not a key of tags.  A caller who
\* is not a verified owner or Admin of the topic (a caller without a token
\* included) puts the tag in pending_tags and leaves tags unchanged; the
\* verified owner or an Admin puts the tag in tags with count 1 and removes
\* it from pending_tags.
C7_NewTag ==
    [][\A t \in DOMAIN topics : \A g \in Tags \ DOMAIN topics[t].tags :
          AddTagOn(t, g) =>
              /\ last'.code = OK
              /\ t \in DOMAIN topics'
              /\ IF CallerPasses(last'.sub, topics[t].author)
                 THEN /\ DOMAIN topics'[t].tags = DOMAIN topics[t].tags \cup {g}
                      /\ topics'[t].tags[g] = 1
                      /\ \A h \in DOMAIN topics[t].tags :
                            topics'[t].tags[h] = topics[t].tags[h]
                      /\ topics'[t].pending_tags = topics[t].pending_tags \ {g}
                 ELSE /\ topics'[t].tags = topics[t].tags
                      /\ topics'[t].pending_tags = topics[t].pending_tags \cup {g}]_vars

\* C7 witness: an Admin who is not the author has just confirmed a tag
\* (count 1, not pending) while the other tag is pending.
C7_Witness ==
    /\ last.op = "add_tags_handler"
    /\ last.code = OK
    /\ last.topic \in DOMAIN topics
    /\ last.sub \in DOMAIN users
    /\ users[last.sub].status = Admin
    /\ topics[last.topic].author # last.sub
    /\ last.tag \in DOMAIN topics[last.topic].tags
    /\ topics[last.topic].tags[last.tag] = 1
    /\ topics[last.topic].pending_tags = Tags \ {last.tag}

\* The Top list holds exactly the names of the Topic records, each once.
TopMatchesTopics ==
    /\ Elems(TopList(top)) = DOMAIN topics
    /\ Len(TopList(top)) = Cardinality(DOMAIN topics)

\* A step leaves the Top list alone, appends the name of a topic it creates,
\* or removes the name of a topic it deletes, keeping the order of the rest.
TopKeepsCreationOrder ==
    \/ TopList(top') = TopList(top)
    \/ \E t \in DOMAIN topics' \ DOMAIN topics :
          TopList(top') = Append(TopList(top), t)
    \/ \E t \in DOMAIN topics \ DOMAIN topics' :
          TopList(top') = SelectSeq(TopList(top), LAMBDA n : n # t)

\* C8: in every reachable state the Top list contains exactly the names of
\* the Topic records that exist, each exactly once, in the order in which
\* those topics were created (a creation appends, a deletion removes and
\* keeps the order of the others, nothing else touches the list).
C8_TopInCreationOrder ==
    /\ []TopMatchesTopics
    /\ [][TopKeepsCreationOrder]_vars

\* C8 witness: both topics exist, "go" created before "rust", after a
\* deletion of an earlier "rust" by somebody other than its author.
C8_Witness ==
    /\ TopList(top) = <<"go", "rust">>
    /\ DOMAIN topics = {"go", "rust"}
    /\ \E u \in DOMAIN users :
          /\ Len(SelectSeq(users[u].topics, LAMBDA n : n = "rust")) = 2

\* The name is one a topic can have (1 to 128 bytes).
ValidTopicName(t) == ~(len(t) = 0 \/ len(t) > MaxTopicLen)

\* C9: a topic_handler request for a valid name with no Topic record, by an
\* authenticated non-Banned user U, creates Topic{author: U, description: the
\* posted one, tags: {}, pending_tags: {}} and appends the name to the end of
\* the Top list and of U's topic list, in one transaction; a topic_handler
\* request for an existing name never changes the topic's author, tags or
\* pending_tags, the Top list or any user's topic list.
C9_CreateOrUpdate ==
    [][last'.op = "topic_handler" =>
          LET t == last'.topic
              U == last'.sub
          IN /\ ( /\ ValidTopicName(t)
                  /\ t \notin DOMAIN topics
                  /\ U # NoSub
                  /\ ~(U \in DOMAIN users /\ users[U].status = Banned) )
                 => /\ last'.code = OK
                    /\ last'.writes = 3
                    /\ topics' = insert(topics, t,
                            [author |-> U, description |-> last'.description,
                             tags |-> EmptyMap, pending_tags |-> {}])
                    /\ top' = insert(top, EmptyName, Append(TopList(top), t))
                    /\ users' = [users EXCEPT ![U].topics = Append(@, t)]
             /\ t \in DOMAIN topics
                 => /\ t \in DOMAIN topics'
                    /\ DOMAIN topics' = DOMAIN topics
                    /\ topics'[t].author = topics[t].author
                    /\ topics'[t].tags = topics[t].tags
                    /\ topics'[t].pending_tags = topics[t].pending_tags
                    /\ top' = top
                    /\ \A u \in DOMAIN users : users'[u].topics = users[u].topics]_vars

\* C9 witness: user U has just created "rust" after "go": the new record has
\* no tags, and "rust" is the last name of the Top list and of U's list.
C9_Witness ==
    /\ last.op = "topic_handler"
    /\ last.code = OK
    /\ last.topic = "rust"
    /\ "rust" \in DOMAIN topics
    /\ topics["rust"] = [author |-> last.sub, description |-> last.description,
                         tags |-> EmptyMap, pending_tags |-> {}]
    /\ TopList(top) = <<"go", "rust">>
    /\ users[last.sub].topics = <<"go", "rust">>

\* C10: a description update or a deletion of an existing topic requested by
\* an authenticated caller who is neither the topic's author nor an Admin
\* returns Forbidden and leaves the Topic record, the Top list and every
\* user's topic list unchanged.
C10_StrangerForbidden ==
    [][(/\ last'.op \in {"topic_handler", "del_topic"}
        /\ last'.topic \in DOMAIN topics
        /\ last'.sub # NoSub
        /\ last'.sub # topics[last'.topic].author
        /\ ~(last'.sub \in DOMAIN users /\ users[last'.sub].status = Admin))
          => last'.code = FORBIDDEN /\ StoreUnchanged]_vars

\* C10 witness: a Normal user who is not the author posted a new description
\* and was refused; the topic keeps its description.
C10_Witness ==
    /\ last.op = "topic_handler"
    /\ last.code = FORBIDDEN
    /\ last.sub \in DOMAIN users
    /\ users[last.sub].status = Normal
    /\ last.topic \in DOMAIN topics
    /\ topics[last.topic].author # last.sub
    /\ topics[last.topic].description # last.description

\* The requests of one operation that returned success.
Succeeded(op) ==
    {i \in Slots : inflight[i].pc = "done" /\ inflight[i].op = op
                   /\ inflight[i].code = OK}

\* The requests that created a topic: they wrote the Topic record, the Top
\* list and the creator's topic list.
Creators == {i \in Succeeded("topic_handler") : inflight[i].writes = 3}

\* How often x occurs in a list.
Occurrences(x, list) == Cardinality({k \in 1 .. Len(list) : list[k] = x})

\* C11: no update is lost.  When N concurrent add-tag requests for the tag
\* "fast", already present on "rust", have returned success, the tag's
\* count is its initial count plus N; when requests concurrently create the
\* topic "go", which did not exist, exactly one of them creates it and the
\* name is in Top once.
C11_NoLostUpdate ==
    /\ "rust" \in DOMAIN topics
    /\ topics["rust"].tags["fast"] =
          SeededDb.topics["rust"].tags["fast"]
              + Cardinality(Succeeded("add_tags_handler"))
    /\ Cardinality(Creators) <= 1
    /\ "go" \in DOMAIN topics <=> Creators # {}
    /\ Occurrences("go", TopList(top)) = Cardinality(Creators)
    /\ (\E i \in Slots : inflight[i].pc = "done" /\ inflight[i].op = "topic_handler")
          => Cardinality(Creators) = 1

\* C11 witness: two add-tag requests both ran their body on the same store;
\* the second to commit was run again, both returned success and the count
\* went up by two, while a third request created "go".
C11_Witness ==
    /\ Cardinality(Succeeded("add_tags_handler")) = 2
    /\ \E i \in Succeeded("add_tags_handler") : inflight[i].runs >= 2
    /\ topics["rust"].tags["fast"] = SeededDb.topics["rust"].tags["fast"] + 2
    /\ Creators # {}

\* C11, the creation case reached: two requests ran the creation branch for
\* "go" on a store without it; one created it and the other, run again,
\* found the topic and created nothing.
C11_WitnessCreate ==
    /\ Cardinality(Creators) = 1
    /\ \E i \in Slots :
          /\ inflight[i].pc = "done"
          /\ inflight[i].op = "topic_handler"
          /\ i \notin Creators
          /\ inflight[i].runs >= 2
    /\ TopList(top) = <<"rust", "go">>

\* The header passes every layer of the wire decoding.
WellFormed(headers) ==
    /\ headers # <<>>
    /\ headers[1].text
    /\ headers[1].scheme = Bearer
    /\ headers[1].base64
    /\ headers[1].packed

\* The token is the one the client was given, unaltered, and it was signed
\* under the secret the process has now.
Authentic(token) ==
    wallet # <<>> /\ wallet[1].token = token /\ wallet[1].key = secret

\* The timing predicate of the specification.
InWindow(token) == (token.iat - now) + (token.exp - now) > 0

\* C12: is_valid is true iff the token's sign is the signature under the
\* current secret of its own (sub, iat, exp) and (iat - now) + (exp - now)
\* > 0: the middleware accepts a well-formed token iff it is the unaltered
\* token issued under the current secret and inside the window; a token
\* from new(sub) is valid at the instant it is issued; a token signed under
\* another secret than the current one is invalid.
C12_ValidIffSignedAndInWindow ==
    /\ [](wallet # <<>> =>
            LET w == wallet[1] IN
            /\ is_valid(w.token) <=> (w.key = secret /\ InWindow(w.token))
            /\ (w.key = secret /\ w.token.iat = now /\ w.token.exp = now + Lifetime)
                    => is_valid(w.token)
            /\ w.key # secret => ~is_valid(w.token))
    /\ [][(exchange'.served /\ WellFormed(exchange'.headers)) =>
             LET p == exchange'.headers[1].token IN
             /\ exchange'.token # <<>> <=> (Authentic(p) /\ InWindow(p))
             /\ is_valid(p) <=> (Authentic(p) /\ InWindow(p))]_vars

\* C12 witness: after a restart the client sent the token it was given
\* before, unaltered and inside its window, and it was not accepted.
C12_Witness ==
    /\ exchange.served
    /\ wallet # <<>>
    /\ exchange.headers = <<HeaderValue_try_from(wallet[1].token)>>
    /\ wallet[1].key # secret
    /\ InWindow(wallet[1].token)
    /\ exchange.token = <<>>

\* A token correctly signed under the current secret.
SignedToken(sub, iat, exp) == Token(sub, iat, exp, signature(secret, sub, iat, exp))

\* The times a token field can hold.
Times == {k * Quarter : k \in 0 .. MaxTicks + 4}

\* C13 as stated: the validity predicate lets a correctly signed token
\* register as valid at a time now later than its exp when its iat is in
\* the past relative to now: once time has passed there is such a token.
C13_ValidPastExpiry ==
    now > 0 =>
        \E iat \in Times, exp \in Times :
            /\ iat <= now
            /\ exp < now
            /\ is_valid(SignedToken(1, iat, exp))

\* C13 amended: a correctly signed token whose iat is not later than now is
\* valid exactly while now is before the midpoint of iat and exp (2 * now <
\* iat + exp), so it is never valid at a time now >= exp and stops being
\* valid before exp; a token valid at now >= exp has its iat later than now.
C13_ValidOnlyBeforeMidpoint ==
    \A iat \in Times, exp \in Times :
        LET t == SignedToken(1, iat, exp) IN
        /\ iat <= now =>
              /\ is_valid(t) <=> 2 * now < iat + exp
              /\ is_valid(t) => now < exp
        /\ (is_valid(t) /\ now >= exp) => iat > now

\* C13 witness: the client holds a token signed under the current secret
\* whose iat is in the past and whose exp is still ahead, and it is not
\* valid any more.
C13_Witness ==
    /\ wallet # <<>>
    /\ wallet[1].key = secret
    /\ wallet[1].token.iat < now
    /\ now < wallet[1].token.exp
    /\ ~is_valid(wallet[1].token)

\* C14: update returns None for every token for which is_valid is false;
\* for a valid token it returns a token with the same sub and the same exp,
\* iat set to the current time and the signature of (secret, sub, new iat,
\* exp) as its sign.
C14_UpdateRenews ==
    [][(exchange'.served /\ WellFormed(exchange'.headers)) =>
          LET p == exchange'.headers[1].token IN
          IF is_valid(p)
          THEN /\ exchange'.token # <<>>
               /\ exchange'.token[1].sub = p.sub
               /\ exchange'.token[1].exp = p.exp
               /\ exchange'.token[1].iat = now
               /\ exchange'.token[1].sign = signature(secret, p.sub, now, p.exp)
          ELSE exchange'.token = <<>>]_vars

\* C14 witness: a token issued earlier was renewed: the renewed token has a
\* later iat and the exp of the first issue.
C14_Witness ==
    /\ exchange.served
    /\ exchange.token # <<>>
    /\ exchange.token[1].iat > exchange.headers[1].token.iat
    /\ exchange.token[1].exp = exchange.headers[1].token.exp
    /\ exchange.token[1].exp < now + Lifetime

\* The request carries a token that decodes at every layer and is valid.
CarriesValidToken(headers) == WellFormed(headers) /\ is_valid(headers[1].token)

\* C15: every failure to obtain a valid token from a request (no header, a
\* header that is not text, no Bearer prefix, bad base64, bad binary
\* decoding, signature mismatch, failed timing check) gives the outcome of a
\* request without a header: an empty OptionalToken, get_sub None and auth
\* the Unauthenticated error.
C15_FailuresAlike ==
    [][(exchange'.served /\ ~CarriesValidToken(exchange'.headers)) =>
          /\ exchange'.token = <<>>
          /\ exchange'.sub = NoSub
          /\ exchange'.auth = Err(UNAUTHORIZED)
          /\ exchange'.response_header = exchange'.handler_header]_vars

\* C15 witness: a token inside its window whose sub was altered was sent,
\* and the request went on unauthenticated.
C15_Witness ==
    /\ exchange.served
    /\ wallet # <<>>
    /\ wallet[1].key = secret
    /\ WellFormed(exchange.headers)
    /\ exchange.headers[1].token.sub # wallet[1].token.sub
    /\ InWindow(exchange.headers[1].token)
    /\ exchange.auth = Err(UNAUTHORIZED)

\* C16: on the response path, when the request carried a valid token the
\* renewed token is the Authorization response header iff the handler's
\* response had none; a header set by the handler is never overwritten, and
\* without a valid token no Authorization header is added.
C16_RenewedHeaderUnlessSet ==
    [][exchange'.served =>
          /\ exchange'.handler_header # <<>> =>
                exchange'.response_header = exchange'.handler_header
          /\ (exchange'.handler_header = <<>> /\ ~CarriesValidToken(exchange'.headers)) =>
                exchange'.response_header = <<>>
          /\ (exchange'.handler_header = <<>> /\ CarriesValidToken(exchange'.headers)) =>
                /\ WellFormed(exchange'.response_header)
                /\ exchange'.response_header[1].token.sub = exchange'.headers[1].token.sub
                /\ exchange'.response_header[1].token.exp = exchange'.headers[1].token.exp
                /\ exchange'.response_header[1].token.iat = now
                /\ is_valid(exchange'.response_header[1].token)]_vars

\* C16 witness: the request carried a valid token and the handler set its
\* own Authorization header, which the response still carries.
C16_Witness ==
    /\ exchange.served
    /\ exchange.token # <<>>
    /\ exchange.handler_header # <<>>
    /\ exchange.response_header = exchange.handler_header
    /\ exchange.response_header # <<HeaderValue_try_from(exchange.token[1])>>

\* What the readers of one kind see of the flat keyspace.
KindView(d, kind) == [k \in KeysOf(kind) |-> disk_get(d, kind, k)]

\* C17: for all keys k1, k2 and distinct kinds K1, K2 the physical keys
\* prefix(K1) ++ to_key(k1) and prefix(K2) ++ to_key(k2) differ; a get of
\* one kind never returns a record of another kind, and an insert or remove
\* of one kind changes no record of another kind.
C17_NamespaceIsolation ==
    /\ [](\A K1, K2 \in Kinds :
            K1 # K2 =>
                \A k1 \in KeysOf(K1), k2 \in KeysOf(K2) :
                    prefixed_key(K1, k1) # prefixed_key(K2, k2))
    /\ [](\A kind \in Kinds :
            \A k \in KeysOf(kind) :
                disk_get(disk, kind, k) # <<>> => disk_get(disk, kind, k)[1].kind = kind)
    /\ [][\A K1, K2 \in Kinds :
            (K1 # K2 /\ KindView(disk', K1) # KindView(disk, K1))
                => KindView(disk', K2) = KindView(disk, K2)]_vars

\* C17 witness: the same raw key bytes (those of user id 1) hold a User
\* record, a Topic record and a Top record at once, each its own.
C17_Witness ==
    LET k == to_key_u64(1) IN
    /\ disk_get(disk, UserKind, k) = <<[kind |-> UserKind, v |-> 1]>>
    /\ disk_get(disk, TopicKind, k) = <<[kind |-> TopicKind, v |-> 2]>>
    /\ disk_get(disk, TopKind, k) = <<[kind |-> TopKind, v |-> 1]>>
    /\ disk_get(disk, TopicKind, <<116, 111, 112>>) # <<>>
    /\ disk_get(disk, TopKind, <<>>) # <<>>

\* The fields of UserData.
UserDataFields == {"topics", "access_token", "login", "name", "avatar_url", "bio"}

\* The status a status transition gives its target.
TransitionStatus(op) ==
    CASE op = "ban_user" -> Banned
      [] op = "admin_handler_op" -> Admin
      [] op = "admin_handler_deop" -> Normal

\* C18: a status transition (ban_user to Banned, admin_handler op to Admin,
\* deop to Normal) changes only the status tag of the target's User record:
\* the target's profile fields and topic list, every other User record, the
\* Topic records and Top are the same before and after; and no operation
\* deletes a User record.
C18_StatusChangesOnlyTag ==
    [][/\ DOMAIN users \subseteq DOMAIN users'
       /\ last'.op \in {"ban_user", "admin_handler_op", "admin_handler_deop"} =>
            /\ topics' = topics
            /\ top' = top
            /\ DOMAIN users' = DOMAIN users
            /\ \A u \in DOMAIN users : u # last'.target => users'[u] = users[u]
            /\ last'.code = OK =>
                 /\ last'.target \in DOMAIN users
                 /\ users'[last'.target].status = TransitionStatus(last'.op)
                 /\ \A f \in UserDataFields :
                        users'[last'.target][f] = users[last'.target][f]
            /\ last'.code # OK => users' = users]_vars

\* C18 witness: an Admin banned a user who has a profile and a topic, and the
\* banned user's record still holds both.
C18_Witness ==
    /\ last.op = "ban_user"
    /\ last.code = OK
    /\ last.target \in DOMAIN users
    /\ users[last.target].status = Banned
    /\ users[last.target].topics # <<>>
    /\ users[last.target].login # ""
    /\ last.sub # last.target

\* The store's failure reached the request: a failing commit is reached when
\* the body returned Ok, a failing helper call when the body's outcome is
\* not the one it has on a store that does not fail.
StorageErrorReported(req) ==
    /\ OpenedTransaction(req)
    /\ \/ req.fault = CommitFault /\ Body(req).ok
       \/ /\ req.fault \in 1 .. MaxHelperCalls
          /\ Body(req) # Body([req EXCEPT !.fault = 0])

\* C19 as stated: whenever the store reports a storage error during
\* with_transaction, on a read, on a write or at commit, the request returns
\* INTERNAL_SERVER_ERROR.
C19_StorageErrorIsServerError ==
    [][StorageErrorReported(last') => last'.code = INTERNAL_SERVER_ERROR]_vars

\* C19, the part the code keeps: a storage error on a helper call whose
\* result the body propagates with `?` returns INTERNAL_SERVER_ERROR and
\* leaves the store unchanged.
C19_PropagatedErrorIsServerError ==
    [][(StorageErrorReported(last') /\ ~Body(last').ok) =>
          last'.code = INTERNAL_SERVER_ERROR /\ StoreUnchanged]_vars

\* C20: however often the store runs the transaction body again, no side
\* effect outside the store is repeated: for one oauth_callback request the
\* code exchange, the profile call and Token::new each happen exactly once.
C20_OutboundOnce ==
    \A i \in Slots :
        (inflight[i].op = "oauth_callback" /\ inflight[i].pc \in {"ready", "staged", "done"})
            => /\ inflight[i].code_exchanges = 1
               /\ inflight[i].profile_calls = 1
               /\ inflight[i].tokens_new = 1

\* C20 witness: a login whose transaction body ran three times returned
\* success.
C20_Witness ==
    \E i \in Slots :
        /\ inflight[i].op = "oauth_callback"
        /\ inflight[i].pc = "done"
        /\ inflight[i].code = OK
        /\ inflight[i].runs >= 3
        /\ inflight[i].tokens_new = 1

\* The request is one of the four gated mutations in the form the claim
\* names: a creation (a valid name with no Topic record), a description
\* update, a deletion or a tag removal (of an existing topic).
GatedMutation(req) ==
    \/ req.op = "topic_handler" /\ ValidTopicName(req.topic)
    \/ req.op \in {"del_topic", "del_tags_handler"} /\ req.topic \in DOMAIN topics

\* C21: a request by an authenticated caller whose stored status is Banned to
\* create a topic, update a description, delete a topic or remove a tag
\* returns Forbidden and leaves every record unchanged, also when the Banned
\* caller is the topic's author.
C21_BannedForbidden ==
    [][(/\ last'.sub \in DOMAIN users
        /\ users[last'.sub].status = Banned
        /\ GatedMutation(last'))
          => last'.code = FORBIDDEN /\ StoreUnchanged]_vars

\* C21 witness: a Banned author asked to remove a tag their own topic holds
\* and was refused; the tag is still there.
C21_Witness ==
    /\ last.op = "del_tags_handler"
    /\ last.code = FORBIDDEN
    /\ last.sub \in DOMAIN users
    /\ users[last.sub].status = Banned
    /\ last.topic \in DOMAIN topics
    /\ topics[last.topic].author = last.sub
    /\ last.tag \in DOMAIN topics[last.topic].tags

\* C22: ban_user sets the target's status to Banned only when the caller is
\* authenticated and the caller's stored status is Admin when the transaction
\* runs; for a Normal or Banned caller it returns Forbidden, for a caller or
\* (under an Admin caller) a target with no record it returns NotFound, and
\* in those cases no record is changed.  Stated of ban_user on every
\* reachable store, for every caller and target id.
C22_BanOnlyByAdmin ==
    \A sub \in Ids, uid \in Ids :
        LET r == ban_user(Db, sub, uid, 0)
            stored == sub \in DOMAIN users
        IN /\ r.code = OK <=>
                (sub # NoSub /\ stored /\ users[sub].status = Admin
                 /\ uid \in DOMAIN users)
           /\ r.code = OK =>
                r.db = [Db EXCEPT !.users = [users EXCEPT ![uid].status = Banned]]
           /\ r.code # OK => r.db = Db
           /\ sub = NoSub => r.code = UNAUTHORIZED
           /\ (stored /\ users[sub].status \in {Normal, Banned}) => r.code = FORBIDDEN
           /\ (sub # NoSub /\ ~stored) => r.code = NOT_FOUND
           /\ (stored /\ users[sub].status = Admin /\ uid \notin DOMAIN users)
                => r.code = NOT_FOUND

\* C22 witness: an Admin asked to ban a user who has no record and got
\* NotFound.
C22_Witness ==
    /\ last.op = "ban_user"
    /\ last.code = NOT_FOUND
    /\ last.sub \in DOMAIN users
    /\ users[last.sub].status = Admin
    /\ last.target \notin DOMAIN users

\* The token the client holds.
HeldToken == wallet[1].token

\* C23: sliding renewal never extends a token's lifetime.  A token issued by
\* new at time t0 has exp = t0 + 2000000; every renewal under the
\* non-decreasing clock keeps that exp (and the sub) and sets iat to the time
\* of the renewal; is_valid is false at every time now >= exp; and a token
\* that was not renewed is invalid from the midpoint of iat and exp onwards.
C23_RenewalKeepsExpiry ==
    /\ [](wallet # <<>> =>
            /\ HeldToken.exp - Lifetime <= HeldToken.iat
            /\ HeldToken.iat <= now
            /\ now >= HeldToken.exp => ~is_valid(HeldToken)
            /\ (/\ HeldToken.iat = HeldToken.exp - Lifetime
                /\ now >= HeldToken.iat + Lifetime \div 2) => ~is_valid(HeldToken))
    /\ [][wallet' # wallet =>
            IF exchange' = exchange
            THEN /\ wallet'[1].token.iat = now
                 /\ wallet'[1].token.exp = now + Lifetime
            ELSE /\ wallet # <<>>
                 /\ is_valid(HeldToken)
                 /\ wallet'[1].token.sub = HeldToken.sub
                 /\ wallet'[1].token.exp = HeldToken.exp
                 /\ wallet'[1].token.iat = now]_vars

\* C23 witness: the client holds a token that was renewed after its issue,
\* signed under the current secret; the time is its exp, which is still the
\* one of the first issue, and the token is not valid.
C23_Witness ==
    /\ wallet # <<>>
    /\ wallet[1].key = secret
    /\ HeldToken.iat > HeldToken.exp - Lifetime
    /\ now = HeldToken.exp
    /\ ~is_valid(HeldToken)

\* The callers who do not pass verified(caller, topic.author) for topic t:
\* unauthenticated, Banned, a stranger, an id without a record.
NotVerified(t) == {a \in Ids : ~CallerPasses(a, topics[t].author)}

\* What caller a sees of the pending_tags of topic t: the pending_tags of the
\* responses to a's get_topic request and to a's add-tag request for tag g.
PendingSeen(t, g, a) ==
    {res[1].pending_tags :
        res \in {get_topic_response(Db, a, t, 0),
                 add_tags_handler_response(Db, a, t, g, 0)} \ {<<>>}}

\* C24: the pending_tags of a topic are disclosed only to a verified owner
\* or Admin.  On every reachable store, for every topic, the callers who do
\* not pass verified(caller, topic.author) all get the same pending_tags in
\* the response of the same get_topic request and of the same add-tag
\* request: the empty set, whatever the stored pending_tags holds.
C24_PendingOnlyToVerified ==
    \A t \in DOMAIN topics, g \in Tags :
        UNION {PendingSeen(t, g, a) : a \in NotVerified(t)} \subseteq {{}}

\* C24 witness: the Banned author of a topic that has a pending tag read
\* the topic; the response holds the tags and no pending tag.
C24_Witness ==
    /\ last.op = "get_topic"
    /\ last.code = OK
    /\ last.sub \in DOMAIN users
    /\ users[last.sub].status = Banned
    /\ last.topic \in DOMAIN topics
    /\ topics[last.topic].author = last.sub
    /\ topics[last.topic].pending_tags # {}
    /\ topics[last.topic].tags # EmptyMap
    /\ get_topic_response(Db, last.sub, last.topic, 0)[1].pending_tags = {}

\* The profile GitHub returns after the user edited every field of it.
EditedProfile ==
    [access_token |-> "gho2", login |-> "amu", name |-> "Amu",
     avatar_url |-> "jpg", bio |-> "owo"]

\* The fields of UserData the login writes.
ProfileFields == {"access_token", "login", "name", "avatar_url", "bio"}

\* C25: the login upsert in oauth_callback never changes a user's status or
\* topic list.  On every reachable store, for every GitHub id and profile,
\* the transaction writes the User record of that id only: the stored record
\* (a Normal user with an empty topic list when there is none) with
\* access_token, login, name, avatar_url and bio replaced by the profile's,
\* so a Banned user stays Banned and an Admin stays Admin.
C25_UpsertKeepsStatusAndTopics ==
    \A github_id \in Users \cup {3} :
      \A profile \in {GithubProfile(github_id), EditedProfile} :
        LET r == oauth_callback(Db, github_id, profile, 0)
            before == IF github_id \in DOMAIN users THEN users[github_id]
                      ELSE [status |-> Normal, topics |-> <<>>, access_token |-> "",
                            login |-> "", name |-> "", avatar_url |-> "", bio |-> ""]
            after == r.db.users[github_id]
        IN /\ r.code = OK
           /\ r.db.topics = topics
           /\ r.db.top = top
           /\ DOMAIN r.db.users = DOMAIN users \cup {github_id}
           /\ \A u \in DOMAIN users : u # github_id => r.db.users[u] = users[u]
           /\ after.status = before.status
           /\ after.topics = before.topics
           /\ \A f \in ProfileFields : after[f] = profile[f]

\* C25 witness: a Banned user who has a topic logged in again and is still
\* Banned, with the topic on their list.
C25_Witness ==
    /\ last.op = "oauth_callback"
    /\ last.code = OK
    /\ last.target \in DOMAIN users
    /\ users[last.target].status = Banned
    /\ users[last.target].topics # <<>>

====
